---- MODULE Spec2Model ----
(***************************************************************************)
(* Model of LSCProxy/source/AVAPIs_Client.c: the process-wide shutdown     *)
(* flags and signal handler, main, the session thread thread_ConnectCCR    *)
(* (with start_ipcam_stream inlined at its call site), the two relay       *)
(* threads, the buffer-clean thread and the forked ffmpeg child.           *)
(* Every thread is cut at its calls into the transport / the kernel, so    *)
(* that the threads and the signal handler interleave between calls.       *)
(***************************************************************************)
EXTENDS Integers, Sequences, FiniteSets, TLC

\* ---- bounds of the environment ----
\* writes one relay loop gets to perform before the transport only answers
\* with not-ready or terminal results
MaxWrites == 2
\* SIGPIPE deliveries that are counted
MaxSigpipe == 1

\* ---- transport result codes used by the source ----
IOTC_ER_NoERROR == 0
IOTC_ER_INVALID_SID == -14
IOTC_ER_EXCEED_MAX_SESSION == -18
IOTC_ER_CAN_NOT_FIND_DEVICE == -19
AV_ER_TIMEOUT == -20011
AV_ER_DATA_NOREADY == -20012
AV_ER_LOSED_THIS_FRAME == -20014
AV_ER_SESSION_CLOSE_BY_REMOTE == -20015
AV_ER_REMOTE_TIMEOUT_DISCONNECT == -20016
\* avCheckAudioBuf threshold below which the audio loop sleeps
AudioBufThreshold == 25
\* payload size of a received frame (any positive byte count)
FrameBytes == 1
EXIT_FAILURE == 1

VARIABLES
  graceful_shutdown,  \* int graceful_shutdown
  sigkill,            \* int sigkill
  sigpipe_logged,     \* "Caught SIGPIPE signal" lines written to stderr
  sigints,            \* SIGINT signals delivered to the process
  exited,             \* the process has terminated
  exitCode,           \* value given to exit() / returned by main
  exitBy,             \* which statement ended the process
  iotc,               \* transport library: "uninit", "init", "deinit"
  main_pc,            \* position of main
  ccr_pc,             \* position of thread_ConnectCCR
  video_pc,           \* position of thread_ReceiveVideo
  audio_pc,           \* position of thread_ReceiveAudio
  clean_pc,           \* position of thread_bufferClean
  ffmpeg_pc,          \* position of the forked child
  ffmpeg_pid,         \* fork() result in the parent: 0 = not yet forked
  pipe_fd,            \* state of each descriptor of the parent process
  tmpSID, SID, avIndex, \* transport handles held by thread_ConnectCCR
  c_ret,              \* local 'ret' of thread_ConnectCCR
  ipcam_started,      \* value start_ipcam_stream returned (-1: not called yet)
  session,            \* transport session: "none","slot","connected","closed"
  stream,             \* transport AV channel: "none","started","stopped"
  v_ret, a_ret,       \* local 'ret' of the video / audio relay thread
  writes,             \* write() calls made by each relay loop
  writesAfterCancel,  \* ... of which with graceful_shutdown already 1
  calls               \* calls made by thread_ConnectCCR, in order

vars == << graceful_shutdown, sigkill, sigpipe_logged, sigints, exited, exitCode, exitBy,
           iotc, main_pc, ccr_pc, video_pc, audio_pc, clean_pc, ffmpeg_pc,
           ffmpeg_pid, pipe_fd, tmpSID, SID, avIndex, c_ret, ipcam_started,
           session, stream, v_ret, a_ret, writes, writesAfterCancel, calls >>

sigVars == << graceful_shutdown, sigkill, sigpipe_logged, sigints >>
exitVars == << exited, exitCode, exitBy >>
ccrLocals == << c_ret, ipcam_started >>
ccrVars == << ccr_pc, ffmpeg_pid, tmpSID, SID, avIndex, ccrLocals, session, stream, calls >>
videoVars == << video_pc, v_ret >>
audioVars == << audio_pc, a_ret >>
relayCounters == << writes, writesAfterCancel >>

Descriptors == {"ccr_audio", "ccr_video", "thr_audio", "thr_video"}
Kinds == {"audio", "video"}

Init ==
  /\ graceful_shutdown = 0
  /\ sigkill = 0
  /\ sigpipe_logged = 0
  /\ sigints = 0
  /\ exited = FALSE
  /\ exitCode = 0
  /\ exitBy = "none"
  /\ iotc = "uninit"
  /\ main_pc = "args"
  /\ ccr_pc = "unborn"
  /\ video_pc = "unborn"
  /\ audio_pc = "unborn"
  /\ clean_pc = "unborn"
  /\ ffmpeg_pc = "unborn"
  /\ ffmpeg_pid = 0
  /\ pipe_fd = [d \in Descriptors |-> "none"]
  /\ tmpSID = 0
  /\ SID = 0
  /\ avIndex = 0
  /\ c_ret = 0
  /\ ipcam_started = -1
  /\ session = "none"
  /\ stream = "none"
  /\ v_ret = 0
  /\ a_ret = 0
  /\ writes = [k \in Kinds |-> 0]
  /\ writesAfterCancel = [k \in Kinds |-> 0]
  /\ calls = << >>

\* exit(code), or main returning code: the process and all its threads end
Exit(code, by) ==
  /\ exited' = TRUE
  /\ exitCode' = code
  /\ exitBy' = by

\* ------------------------------------------------------------------------
\* sigpipe_handler
\* ------------------------------------------------------------------------
sigFrame == << iotc, main_pc, ccrVars, videoVars, audioVars, clean_pc, ffmpeg_pc,
               pipe_fd, relayCounters >>

\* Variant of the SIGPIPE branch that also requests the graceful shutdown.
sigpipe_handler_SIGPIPE_SetsShutdown ==
  /\ ~exited
  /\ sigpipe_logged < MaxSigpipe
  /\ sigpipe_logged' = sigpipe_logged + 1
  /\ graceful_shutdown' = 1
  /\ UNCHANGED << sigkill, sigints, exitVars, sigFrame >>

\* if (signo == SIGPIPE) fprintf(stderr, "Caught SIGPIPE signal\n");
sigpipe_handler_SIGPIPE ==
  /\ ~exited
  /\ sigpipe_logged < MaxSigpipe
  /\ sigpipe_logged' = sigpipe_logged + 1
  /\ UNCHANGED << graceful_shutdown, sigkill, sigints, exitVars, sigFrame >>

\* Variant of the SIGINT branch that never reaches exit(1): every SIGINT is
\* handled like the first.
sigpipe_handler_SIGINT_NeverExits ==
  /\ ~exited
  /\ sigints' = sigints + 1
  /\ graceful_shutdown' = 1
  /\ sigkill' = 1
  /\ UNCHANGED << sigpipe_logged, exitVars, sigFrame >>

\* Variant of the SIGINT branch with the test inverted (sigkill == 1 instead
\* of sigkill != 1): the first SIGINT already calls exit(1).
sigpipe_handler_SIGINT_Inverted ==
  /\ ~exited
  /\ sigints' = sigints + 1
  /\ IF sigkill = 1
       THEN /\ graceful_shutdown' = 1
            /\ sigkill' = 1
            /\ UNCHANGED exitVars
       ELSE /\ Exit(1, "sigint")
            /\ UNCHANGED << graceful_shutdown, sigkill >>
  /\ UNCHANGED << sigpipe_logged, sigFrame >>

\* else if (signo == SIGINT) { if (sigkill != 1) {graceful_shutdown = 1;
\* sigkill = 1;} else exit(1); }
sigpipe_handler_SIGINT ==
  /\ ~exited
  /\ sigints' = sigints + 1
  /\ IF sigkill # 1
       THEN /\ graceful_shutdown' = 1
            /\ sigkill' = 1
            /\ UNCHANGED exitVars
       ELSE /\ Exit(1, "sigint")
            /\ UNCHANGED << graceful_shutdown, sigkill >>
  /\ UNCHANGED << sigpipe_logged, sigFrame >>

sigpipe_handler ==
  \/ sigpipe_handler_SIGPIPE
  \/ sigpipe_handler_SIGINT

\* ------------------------------------------------------------------------
\* main
\* ------------------------------------------------------------------------
mainFrame == << sigVars, ccrVars, videoVars, audioVars, clean_pc, ffmpeg_pc,
                pipe_fd, relayCounters >>

\* if(argc < 2) return -1;
main_args_missing ==
  /\ ~exited /\ main_pc = "args"
  /\ \E argc \in {1} :
       /\ argc < 2
       /\ Exit(-1, "main_args")
  /\ UNCHANGED << iotc, main_pc, mainFrame >>

main_args_ok ==
  /\ ~exited /\ main_pc = "args"
  /\ \E argc \in {2} :
       /\ ~(argc < 2)
       /\ main_pc' = "initialize"
  /\ UNCHANGED << exitVars, iotc, mainFrame >>

\* ret = IOTC_Initialize2(0); if(ret != IOTC_ER_NoERROR) return 0;
main_initialize_fail ==
  /\ ~exited /\ main_pc = "initialize"
  /\ \E ret \in {IOTC_ER_EXCEED_MAX_SESSION} :
       /\ ret # IOTC_ER_NoERROR
       /\ Exit(0, "main_init")
  /\ UNCHANGED << iotc, main_pc, mainFrame >>

\* IOTC_Initialize2 succeeded; avInitialize(32); LAN search
main_initialize_ok ==
  /\ ~exited /\ main_pc = "initialize"
  /\ \E ret \in {IOTC_ER_NoERROR} :
       /\ ~(ret # IOTC_ER_NoERROR)
       /\ iotc' = "init"
       /\ main_pc' = "create"
  /\ UNCHANGED << exitVars, mainFrame >>

\* pthread_create(&ConnectThread_ID, ..., thread_ConnectCCR, UID)
main_create ==
  /\ ~exited /\ main_pc = "create"
  /\ main_pc' = "join"
  /\ ccr_pc' = "fork"
  /\ UNCHANGED << sigVars, exitVars, iotc, ffmpeg_pid, tmpSID, SID, avIndex,
                  ccrLocals, session, stream, calls, videoVars, audioVars,
                  clean_pc, ffmpeg_pc, pipe_fd, relayCounters >>

main_create_fail ==
  /\ ~exited /\ main_pc = "create"
  /\ Exit(-1, "main_create")
  /\ UNCHANGED << iotc, main_pc, mainFrame >>

\* pthread_join(ConnectThread_ID, NULL)
main_join ==
  /\ ~exited /\ main_pc = "join"
  /\ ccr_pc = "returned"
  /\ main_pc' = "deinit"
  /\ UNCHANGED << exitVars, iotc, mainFrame >>

\* avDeInitialize(); IOTC_DeInitialize();
main_deinit ==
  /\ ~exited /\ main_pc = "deinit"
  /\ iotc' = "deinit"
  /\ main_pc' = "return"
  /\ UNCHANGED << exitVars, mainFrame >>

\* return 0;
main_return ==
  /\ ~exited /\ main_pc = "return"
  /\ Exit(0, "main_return")
  /\ UNCHANGED << iotc, main_pc, mainFrame >>

main ==
  \/ main_args_missing
  \/ main_args_ok
  \/ main_initialize_fail
  \/ main_initialize_ok
  \/ main_create
  \/ main_create_fail
  \/ main_join
  \/ main_deinit
  \/ main_return

\* ------------------------------------------------------------------------
\* thread_ConnectCCR (start_ipcam_stream inlined at ccr_pc = "ioctrl_*")
\* ------------------------------------------------------------------------
ccrFrame == << sigVars, iotc, main_pc, videoVars, audioVars, clean_pc, relayCounters >>

Call(name) == calls' = Append(calls, name)

\* ffmpeg_pid = fork();
ccr_fork ==
  /\ ~exited /\ ccr_pc = "fork"
  /\ \E pid \in {-1, 1} :
       /\ ffmpeg_pid' = pid
       /\ ffmpeg_pc' = IF pid = -1 THEN ffmpeg_pc ELSE "forked"
  /\ Call("fork")
  /\ ccr_pc' = "open_audio"
  /\ UNCHANGED << exitVars, pipe_fd, tmpSID, SID, avIndex, session, stream, ccrLocals, ccrFrame >>

\* int audio_pipe_fd = open(AUDIO_FIFO_PATH, O_RDWR); if (-1) exit(EXIT_FAILURE);
ccr_open_audio ==
  /\ ~exited /\ ccr_pc = "open_audio"
  /\ Call("open(AUDIO_FIFO_PATH)")
  /\ \E fd \in {-1, 3} :
       IF fd = -1
         THEN /\ Exit(EXIT_FAILURE, "ccr_open")
              /\ UNCHANGED << pipe_fd, ccr_pc >>
         ELSE /\ pipe_fd' = [pipe_fd EXCEPT !["ccr_audio"] = "open"]
              /\ ccr_pc' = "open_video"
              /\ UNCHANGED exitVars
  /\ UNCHANGED << ffmpeg_pid, ffmpeg_pc, tmpSID, SID, avIndex, session, stream, ccrLocals, ccrFrame >>

\* int video_pipe_fd = open(VIDEO_FIFO_PATH, O_RDWR); if (-1) exit(EXIT_FAILURE);
ccr_open_video ==
  /\ ~exited /\ ccr_pc = "open_video"
  /\ Call("open(VIDEO_FIFO_PATH)")
  /\ \E fd \in {-1, 4} :
       IF fd = -1
         THEN /\ Exit(EXIT_FAILURE, "ccr_open")
              /\ UNCHANGED << pipe_fd, ccr_pc >>
         ELSE /\ pipe_fd' = [pipe_fd EXCEPT !["ccr_video"] = "open"]
              /\ ccr_pc' = "fork_check"
              /\ UNCHANGED exitVars
  /\ UNCHANGED << ffmpeg_pid, ffmpeg_pc, tmpSID, SID, avIndex, session, stream, ccrLocals, ccrFrame >>

\* Variant of the fork test without the 'else if (ffmpeg_pid == -1)' exit.
ccr_fork_check_IgnoresForkFailure ==
  /\ ~exited /\ ccr_pc = "fork_check"
  /\ ccr_pc' = "get_session"
  /\ UNCHANGED << exitVars, ffmpeg_pid, ffmpeg_pc, pipe_fd, tmpSID, SID, avIndex, session,
                  stream, calls, ccrLocals, ccrFrame >>

\* parent side of: if (ffmpeg_pid == 0) {...} else if (ffmpeg_pid == -1) exit(EXIT_FAILURE);
ccr_fork_check ==
  /\ ~exited /\ ccr_pc = "fork_check"
  /\ IF ffmpeg_pid = -1
       THEN /\ Exit(EXIT_FAILURE, "ccr_fork")
            /\ UNCHANGED ccr_pc
       ELSE /\ ccr_pc' = "get_session"
            /\ UNCHANGED exitVars
  /\ UNCHANGED << ffmpeg_pid, ffmpeg_pc, pipe_fd, tmpSID, SID, avIndex, session,
                  stream, calls, ccrLocals, ccrFrame >>

\* Variant of the session-slot step that gives up when graceful_shutdown is
\* already set.
ccr_get_session_ChecksCancel ==
  /\ ~exited /\ ccr_pc = "get_session"
  /\ Call("IOTC_Get_SessionID")
  /\ \E r \in {IOTC_ER_EXCEED_MAX_SESSION, 0} :
       /\ tmpSID' = r
       /\ IF r < 0 \/ graceful_shutdown = 1
            THEN ccr_pc' = "returned" /\ UNCHANGED session
            ELSE ccr_pc' = "connect" /\ session' = "slot"
  /\ UNCHANGED << exitVars, ffmpeg_pid, ffmpeg_pc, pipe_fd, SID, avIndex, stream,
                  ccrLocals, ccrFrame >>

\* int tmpSID = IOTC_Get_SessionID(); if(tmpSID < 0) return 0;
ccr_get_session ==
  /\ ~exited /\ ccr_pc = "get_session"
  /\ Call("IOTC_Get_SessionID")
  /\ \E r \in {IOTC_ER_EXCEED_MAX_SESSION, 0} :
       /\ tmpSID' = r
       /\ IF r < 0
            THEN ccr_pc' = "returned" /\ UNCHANGED session
            ELSE ccr_pc' = "connect" /\ session' = "slot"
  /\ UNCHANGED << exitVars, ffmpeg_pid, ffmpeg_pc, pipe_fd, SID, avIndex, stream, ccrLocals, ccrFrame >>

\* Variant of the connect step without the 'if(SID < 0) return 0;' test.
ccr_connect_IgnoresFailure ==
  /\ ~exited /\ ccr_pc = "connect"
  /\ Call("IOTC_Connect_ByUID_Parallel")
  /\ \E r \in {IOTC_ER_CAN_NOT_FIND_DEVICE, tmpSID} :
       /\ SID' = r
       /\ ccr_pc' = "av_start"
       /\ session' = IF r < 0 THEN session ELSE "connected"
  /\ UNCHANGED << exitVars, ffmpeg_pid, ffmpeg_pc, pipe_fd, tmpSID, avIndex, stream,
                  ccrLocals, ccrFrame >>

\* SID = IOTC_Connect_ByUID_Parallel(UID, tmpSID); if(SID < 0) return 0;
ccr_connect ==
  /\ ~exited /\ ccr_pc = "connect"
  /\ Call("IOTC_Connect_ByUID_Parallel")
  /\ \E r \in {IOTC_ER_CAN_NOT_FIND_DEVICE, tmpSID} :
       /\ SID' = r
       /\ IF r < 0
            THEN ccr_pc' = "returned" /\ UNCHANGED session
            ELSE ccr_pc' = "av_start" /\ session' = "connected"
  /\ UNCHANGED << exitVars, ffmpeg_pid, ffmpeg_pc, pipe_fd, tmpSID, avIndex, stream, ccrLocals, ccrFrame >>

\* int avIndex = avClientStart2(SID, ...); if(avIndex < 0) return 0;
ccr_av_start ==
  /\ ~exited /\ ccr_pc = "av_start"
  /\ Call("avClientStart2")
  /\ \E r \in {AV_ER_TIMEOUT, 0} :
       /\ avIndex' = r
       /\ IF r < 0
            THEN ccr_pc' = "returned" /\ UNCHANGED stream
            ELSE ccr_pc' = "ioctrl_nightvision" /\ stream' = "started"
  /\ UNCHANGED << exitVars, ffmpeg_pid, ffmpeg_pc, pipe_fd, tmpSID, SID, session, ccrLocals, ccrFrame >>

\* The four setup commands of start_ipcam_stream, in source order, with the
\* position each one leads to when it succeeds.
SetupCommands ==
  << [pc |-> "ioctrl_nightvision", cmd |-> "avSendIOCtrl(0x5000)", next |-> "ioctrl_quality"],
     [pc |-> "ioctrl_quality", cmd |-> "avSendIOCtrl(IOTYPE_USER_IPCAM_SETSTREAMCTRL_REQ)", next |-> "ioctrl_start"],
     [pc |-> "ioctrl_start", cmd |-> "avSendIOCtrl(IOTYPE_USER_IPCAM_START)", next |-> "ioctrl_audiostart"],
     [pc |-> "ioctrl_audiostart", cmd |-> "avSendIOCtrl(IOTYPE_USER_IPCAM_AUDIOSTART)", next |-> "create_video"] >>

\* Variant of start_ipcam_stream in which a failed command is noted but the
\* 'return 0;' is missing: the next command is sent all the same.
start_ipcam_stream_ContinuesAfterFailure ==
  /\ ~exited
  /\ \E i \in 1..Len(SetupCommands) :
       /\ ccr_pc = SetupCommands[i].pc
       /\ Call(SetupCommands[i].cmd)
       /\ \E r \in {AV_ER_SESSION_CLOSE_BY_REMOTE, 0} :
            /\ ccr_pc' = SetupCommands[i].next
            /\ ipcam_started' = IF r < 0 THEN 0
                                ELSE IF i = Len(SetupCommands) /\ ipcam_started = -1 THEN 1
                                ELSE ipcam_started
  /\ UNCHANGED << exitVars, ffmpeg_pid, ffmpeg_pc, pipe_fd, tmpSID, SID, avIndex,
                  session, stream, c_ret, ccrFrame >>

\* One avSendIOCtrl of start_ipcam_stream: a negative result makes
\* start_ipcam_stream return 0, so that thread_ConnectCCR skips the
\* if-block and goes on at the stop command; after the fourth success
\* start_ipcam_stream returns 1 and the if-block is entered.
start_ipcam_stream ==
  /\ ~exited
  /\ \E i \in 1..Len(SetupCommands) :
       /\ ccr_pc = SetupCommands[i].pc
       /\ Call(SetupCommands[i].cmd)
       /\ \E r \in {AV_ER_SESSION_CLOSE_BY_REMOTE, 0} :
            /\ ccr_pc' = IF r < 0 THEN "stop" ELSE SetupCommands[i].next
            /\ ipcam_started' = IF r < 0 THEN 0
                                ELSE IF i = Len(SetupCommands) THEN 1
                                ELSE ipcam_started
  /\ UNCHANGED << exitVars, ffmpeg_pid, ffmpeg_pc, pipe_fd, tmpSID, SID, avIndex,
                  session, stream, c_ret, ccrFrame >>

\* pthread_create(&ThreadVideo_ID, NULL, &thread_ReceiveVideo, &avIndex)
ccr_create_video ==
  /\ ~exited /\ ccr_pc = "create_video"
  /\ \E ret \in {0, 11} :
       /\ c_ret' = ret
       /\ IF ret # 0
         THEN Exit(-1, "ccr_create") /\ UNCHANGED << ccr_pc, video_pc >>
         ELSE ccr_pc' = "create_audio" /\ video_pc' = "open" /\ UNCHANGED exitVars
  /\ UNCHANGED << sigVars, iotc, main_pc, ffmpeg_pid, ffmpeg_pc, pipe_fd, tmpSID, SID,
                  avIndex, ipcam_started, session, stream, calls, v_ret, audioVars,
                  clean_pc, relayCounters >>

\* pthread_create(&ThreadAudio_ID, NULL, &thread_ReceiveAudio, &avIndex)
ccr_create_audio ==
  /\ ~exited /\ ccr_pc = "create_audio"
  /\ \E ret \in {0, 11} :
       /\ c_ret' = ret
       /\ IF ret # 0
         THEN Exit(-1, "ccr_create") /\ UNCHANGED << ccr_pc, audio_pc >>
         ELSE ccr_pc' = "create_clean" /\ audio_pc' = "open" /\ UNCHANGED exitVars
  /\ UNCHANGED << sigVars, iotc, main_pc, ffmpeg_pid, ffmpeg_pc, pipe_fd, tmpSID, SID,
                  avIndex, ipcam_started, session, stream, calls, a_ret, videoVars,
                  clean_pc, relayCounters >>

\* pthread_create(&ThreadBufferClean_ID, NULL, &thread_bufferClean, NULL)
ccr_create_clean ==
  /\ ~exited /\ ccr_pc = "create_clean"
  /\ \E ret \in {0, 11} :
       /\ c_ret' = ret
       /\ IF ret # 0
         THEN Exit(-1, "ccr_create") /\ UNCHANGED << ccr_pc, clean_pc >>
         ELSE ccr_pc' = "join_video" /\ clean_pc' = "clean_video" /\ UNCHANGED exitVars
  /\ UNCHANGED << sigVars, iotc, main_pc, ffmpeg_pid, ffmpeg_pc, pipe_fd, tmpSID, SID,
                  avIndex, ipcam_started, session, stream, calls, videoVars, audioVars,
                  relayCounters >>

\* if( ThreadVideo_ID!=0) pthread_join(ThreadVideo_ID, NULL);
ccr_join_video ==
  /\ ~exited /\ ccr_pc = "join_video"
  /\ video_pc = "returned"
  /\ ccr_pc' = "join_audio"
  /\ UNCHANGED << exitVars, ffmpeg_pid, ffmpeg_pc, pipe_fd, tmpSID, SID, avIndex,
                  session, stream, calls, ccrLocals, ccrFrame >>

\* Variant of the second join that does not wait for the audio thread.
ccr_join_audio_NoWait ==
  /\ ~exited /\ ccr_pc = "join_audio"
  /\ ccr_pc' = "stop"
  /\ UNCHANGED << exitVars, ffmpeg_pid, ffmpeg_pc, pipe_fd, tmpSID, SID, avIndex,
                  session, stream, calls, ccrLocals, ccrFrame >>

\* if( ThreadAudio_ID!=0) pthread_join(ThreadAudio_ID, NULL);
ccr_join_audio ==
  /\ ~exited /\ ccr_pc = "join_audio"
  /\ audio_pc = "returned"
  /\ ccr_pc' = "stop"
  /\ UNCHANGED << exitVars, ffmpeg_pid, ffmpeg_pc, pipe_fd, tmpSID, SID, avIndex,
                  session, stream, calls, ccrLocals, ccrFrame >>

\* if((ret = avSendIOCtrl(avIndex, IOTYPE_USER_IPCAM_STOP, ...)) < 0) return 0;
ccr_stop ==
  /\ ~exited /\ ccr_pc = "stop"
  /\ Call("avSendIOCtrl(IOTYPE_USER_IPCAM_STOP)")
  /\ \E r \in {AV_ER_SESSION_CLOSE_BY_REMOTE, 0} :
       /\ c_ret' = r
       /\ ccr_pc' = IF r < 0 THEN "returned" ELSE "close_video"
  /\ UNCHANGED << exitVars, ffmpeg_pid, ffmpeg_pc, pipe_fd, tmpSID, SID, avIndex,
                  session, stream, ipcam_started, ccrFrame >>

\* close(video_pipe_fd);
ccr_close_video ==
  /\ ~exited /\ ccr_pc = "close_video"
  /\ Call("close(video_pipe_fd)")
  /\ pipe_fd' = [pipe_fd EXCEPT !["ccr_video"] = "closed"]
  /\ ccr_pc' = "close_audio"
  /\ UNCHANGED << exitVars, ffmpeg_pid, ffmpeg_pc, tmpSID, SID, avIndex,
                  session, stream, ccrLocals, ccrFrame >>

\* close(audio_pipe_fd);
ccr_close_audio ==
  /\ ~exited /\ ccr_pc = "close_audio"
  /\ Call("close(audio_pipe_fd)")
  /\ pipe_fd' = [pipe_fd EXCEPT !["ccr_audio"] = "closed"]
  /\ ccr_pc' = "kill"
  /\ UNCHANGED << exitVars, ffmpeg_pid, ffmpeg_pc, tmpSID, SID, avIndex,
                  session, stream, ccrLocals, ccrFrame >>

\* kill(ffmpeg_pid, SIGKILL);
ccr_kill ==
  /\ ~exited /\ ccr_pc = "kill"
  /\ Call("kill(ffmpeg_pid)")
  /\ ffmpeg_pc' = IF ffmpeg_pc = "exited" THEN "exited" ELSE "killed"
  /\ ccr_pc' = "av_exit"
  /\ UNCHANGED << exitVars, ffmpeg_pid, pipe_fd, tmpSID, SID, avIndex,
                  session, stream, ccrLocals, ccrFrame >>

\* Variant of teardown in which avClientStop(avIndex) is left out: after
\* avClientExit the thread goes straight to IOTC_Session_Close.
ccr_av_exit_SkipsStop ==
  /\ ~exited /\ ccr_pc = "av_exit"
  /\ Call("avClientExit")
  /\ ccr_pc' = "session_close"
  /\ UNCHANGED << exitVars, ffmpeg_pid, ffmpeg_pc, pipe_fd, tmpSID, SID, avIndex,
                  session, stream, ccrLocals, ccrFrame >>

\* avClientExit(SID, 0);
ccr_av_exit ==
  /\ ~exited /\ ccr_pc = "av_exit"
  /\ Call("avClientExit")
  /\ ccr_pc' = "av_stop"
  /\ UNCHANGED << exitVars, ffmpeg_pid, ffmpeg_pc, pipe_fd, tmpSID, SID, avIndex,
                  session, stream, ccrLocals, ccrFrame >>

\* avClientStop(avIndex);
ccr_av_stop ==
  /\ ~exited /\ ccr_pc = "av_stop"
  /\ Call("avClientStop")
  /\ stream' = "stopped"
  /\ ccr_pc' = "session_close"
  /\ UNCHANGED << exitVars, ffmpeg_pid, ffmpeg_pc, pipe_fd, tmpSID, SID, avIndex,
                  session, ccrLocals, ccrFrame >>

\* IOTC_Session_Close(SID); return NULL;
ccr_session_close ==
  /\ ~exited /\ ccr_pc = "session_close"
  /\ Call("IOTC_Session_Close")
  /\ session' = "closed"
  /\ ccr_pc' = "returned"
  /\ UNCHANGED << exitVars, ffmpeg_pid, ffmpeg_pc, pipe_fd, tmpSID, SID, avIndex,
                  stream, ccrLocals, ccrFrame >>

thread_ConnectCCR ==
  \/ ccr_fork
  \/ ccr_open_audio
  \/ ccr_open_video
  \/ ccr_fork_check
  \/ ccr_get_session
  \/ ccr_connect
  \/ ccr_av_start
  \/ start_ipcam_stream
  \/ ccr_create_video
  \/ ccr_create_audio
  \/ ccr_create_clean
  \/ ccr_join_video
  \/ ccr_join_audio
  \/ ccr_stop
  \/ ccr_close_video
  \/ ccr_close_audio
  \/ ccr_kill
  \/ ccr_av_exit
  \/ ccr_av_stop
  \/ ccr_session_close

\* ------------------------------------------------------------------------
\* thread_ReceiveVideo
\* ------------------------------------------------------------------------
videoFrame == << sigVars, iotc, main_pc, ccrVars, audioVars, clean_pc, ffmpeg_pc >>

\* results of avRecvFrameData2 that the loop tests for
VideoNotReady == {AV_ER_DATA_NOREADY}
TerminalResults == {AV_ER_SESSION_CLOSE_BY_REMOTE, AV_ER_REMOTE_TIMEOUT_DISCONNECT,
                    IOTC_ER_INVALID_SID}
\* every result avRecvFrameData2 is modelled to give: the tested codes, one
\* code the loop has no branch for, and a frame of FrameBytes bytes
VideoResults == VideoNotReady \cup TerminalResults
                  \cup {AV_ER_LOSED_THIS_FRAME, FrameBytes}

\* write(fd, buf, count): what the call can return
WriteResults(count) == IF count < 0 THEN {-1} ELSE {-1, count}

\* int video_pipe_fd = open(VIDEO_FIFO_PATH, O_WRONLY); if (-1) exit(EXIT_FAILURE);
video_open ==
  /\ ~exited /\ video_pc = "open"
  /\ \E fd \in {-1, 5} :
       IF fd = -1
         THEN /\ Exit(EXIT_FAILURE, "video_open")
              /\ UNCHANGED << pipe_fd, video_pc >>
         ELSE /\ pipe_fd' = [pipe_fd EXCEPT !["thr_video"] = "open"]
              /\ video_pc' = "recv"
              /\ UNCHANGED exitVars
  /\ UNCHANGED << v_ret, relayCounters, videoFrame >>

\* Variant of the video receive in which a terminal result also sets
\* graceful_shutdown, stopping the audio loop as well.
video_recv_CancelsSibling ==
  /\ ~exited /\ video_pc = "recv"
  /\ \E r \in VideoResults :
       /\ v_ret' = r
       /\ IF r = AV_ER_DATA_NOREADY
            THEN video_pc' = "sleep" /\ UNCHANGED graceful_shutdown
            ELSE IF r \in TerminalResults
                   THEN video_pc' = "close" /\ graceful_shutdown' = 1
                   ELSE /\ writes["video"] < MaxWrites
                        /\ video_pc' = "write"
                        /\ UNCHANGED graceful_shutdown
  /\ UNCHANGED << exitVars, pipe_fd, relayCounters, sigkill, sigpipe_logged, sigints,
                  iotc, main_pc, ccrVars, audioVars, clean_pc, ffmpeg_pc >>

\* ret = avRecvFrameData2(...) and the if / else-if chain after it
video_recv ==
  /\ ~exited /\ video_pc = "recv"
  /\ \E r \in VideoResults :
       /\ v_ret' = r
       /\ IF r = AV_ER_DATA_NOREADY
            THEN video_pc' = "sleep"
            ELSE IF r \in TerminalResults
                   THEN video_pc' = "close"
                   ELSE /\ writes["video"] < MaxWrites
                        /\ video_pc' = "write"
  /\ UNCHANGED << exitVars, pipe_fd, relayCounters, videoFrame >>

\* usleep(gSleepUs); continue;   (after AV_ER_DATA_NOREADY)
video_sleep ==
  /\ ~exited /\ video_pc = "sleep"
  /\ video_pc' = "recv"
  /\ UNCHANGED << exitVars, pipe_fd, v_ret, relayCounters, videoFrame >>

\* ret = write(video_pipe_fd, buf, ret); if (ret < 0) printf(...)
video_write ==
  /\ ~exited /\ video_pc = "write"
  /\ writes' = [writes EXCEPT !["video"] = @ + 1]
  /\ writesAfterCancel' = [writesAfterCancel EXCEPT
                             !["video"] = IF graceful_shutdown = 1 THEN @ + 1 ELSE @]
  /\ \E w \in WriteResults(v_ret) : v_ret' = w
  /\ video_pc' = "check"
  /\ UNCHANGED << exitVars, pipe_fd, videoFrame >>

\* Variant of the video loop without the graceful_shutdown test at its end.
video_check_NoBreak ==
  /\ ~exited /\ video_pc = "check"
  /\ video_pc' = "recv"
  /\ UNCHANGED << exitVars, pipe_fd, v_ret, relayCounters, videoFrame >>

\* if (graceful_shutdown == 1) break;   (end of the loop body)
video_check ==
  /\ ~exited /\ video_pc = "check"
  /\ video_pc' = IF graceful_shutdown = 1 THEN "close" ELSE "recv"
  /\ UNCHANGED << exitVars, pipe_fd, v_ret, relayCounters, videoFrame >>

\* close(video_pipe_fd); return 0;   (the local ret ends with the thread)
video_close ==
  /\ ~exited /\ video_pc = "close"
  /\ pipe_fd' = [pipe_fd EXCEPT !["thr_video"] = "closed"]
  /\ video_pc' = "returned"
  /\ v_ret' = 0
  /\ UNCHANGED << exitVars, relayCounters, videoFrame >>

thread_ReceiveVideo ==
  \/ video_open
  \/ video_recv
  \/ video_sleep
  \/ video_write
  \/ video_check
  \/ video_close

\* ------------------------------------------------------------------------
\* thread_ReceiveAudio
\* ------------------------------------------------------------------------
audioFrame == << sigVars, iotc, main_pc, ccrVars, videoVars, clean_pc, ffmpeg_pc >>

\* results of avCheckAudioBuf: an error, a count below the threshold, a
\* count that reaches it
CheckAudioResults == {IOTC_ER_INVALID_SID, 0, AudioBufThreshold}
\* results of avRecvAudioData: the tested codes, one code the loop has no
\* branch for, and a frame of FrameBytes bytes
AudioResults == TerminalResults
                  \cup {AV_ER_LOSED_THIS_FRAME, AV_ER_DATA_NOREADY, FrameBytes}

\* int audio_pipe_fd = open(AUDIO_FIFO_PATH, O_WRONLY); if (-1) exit(EXIT_FAILURE);
audio_open ==
  /\ ~exited /\ audio_pc = "open"
  /\ \E fd \in {-1, 6} :
       IF fd = -1
         THEN /\ Exit(EXIT_FAILURE, "audio_open")
              /\ UNCHANGED << pipe_fd, audio_pc >>
         ELSE /\ pipe_fd' = [pipe_fd EXCEPT !["thr_audio"] = "open"]
              /\ audio_pc' = "check_buf"
              /\ UNCHANGED exitVars
  /\ UNCHANGED << a_ret, relayCounters, audioFrame >>

\* ret = avCheckAudioBuf(avIndex); if(ret < 0) break; if(ret < 25) {usleep; continue;}
audio_check_buf ==
  /\ ~exited /\ audio_pc = "check_buf"
  /\ \E r \in CheckAudioResults :
       /\ a_ret' = r
       /\ audio_pc' = IF r < 0 THEN "close"
                      ELSE IF r < AudioBufThreshold THEN "sleep"
                      ELSE "recv"
  /\ UNCHANGED << exitVars, pipe_fd, relayCounters, audioFrame >>

\* usleep(gSleepUs); continue;   (after avCheckAudioBuf gave less than 25)
audio_sleep ==
  /\ ~exited /\ audio_pc = "sleep"
  /\ audio_pc' = "check_buf"
  /\ UNCHANGED << exitVars, pipe_fd, a_ret, relayCounters, audioFrame >>

\* Variant of the audio receive without the AV_ER_LOSED_THIS_FRAME branch
\* (as in the video loop): the result falls through to the write.
audio_recv_LostFrameUnhandled ==
  /\ ~exited /\ audio_pc = "recv"
  /\ \E r \in AudioResults :
       /\ a_ret' = r
       /\ IF r \in TerminalResults
            THEN audio_pc' = "close"
            ELSE /\ writes["audio"] < MaxWrites
                 /\ audio_pc' = "precheck"
  /\ UNCHANGED << exitVars, pipe_fd, relayCounters, audioFrame >>

\* ret = avRecvAudioData(...) and the if / else-if chain after it
audio_recv ==
  /\ ~exited /\ audio_pc = "recv"
  /\ \E r \in AudioResults :
       /\ a_ret' = r
       /\ IF r \in TerminalResults
            THEN audio_pc' = "close"
            ELSE IF r = AV_ER_LOSED_THIS_FRAME
                   THEN audio_pc' = "check_buf"
                   ELSE /\ writes["audio"] < MaxWrites
                        /\ audio_pc' = "precheck"
  /\ UNCHANGED << exitVars, pipe_fd, relayCounters, audioFrame >>

\* if (graceful_shutdown == 1) break;   (before the write)
audio_precheck ==
  /\ ~exited /\ audio_pc = "precheck"
  /\ audio_pc' = IF graceful_shutdown = 1 THEN "close" ELSE "write"
  /\ UNCHANGED << exitVars, pipe_fd, a_ret, relayCounters, audioFrame >>

\* ret = write(audio_pipe_fd, buf, ret); if (ret < 0) printf(...)
audio_write ==
  /\ ~exited /\ audio_pc = "write"
  /\ writes' = [writes EXCEPT !["audio"] = @ + 1]
  /\ writesAfterCancel' = [writesAfterCancel EXCEPT
                             !["audio"] = IF graceful_shutdown = 1 THEN @ + 1 ELSE @]
  /\ \E w \in WriteResults(a_ret) : a_ret' = w
  /\ audio_pc' = "postcheck"
  /\ UNCHANGED << exitVars, pipe_fd, audioFrame >>

\* if (graceful_shutdown == 1) break;   (after the write)
audio_postcheck ==
  /\ ~exited /\ audio_pc = "postcheck"
  /\ audio_pc' = IF graceful_shutdown = 1 THEN "close" ELSE "check_buf"
  /\ UNCHANGED << exitVars, pipe_fd, a_ret, relayCounters, audioFrame >>

\* close(audio_pipe_fd); return 0;   (the local ret ends with the thread)
audio_close ==
  /\ ~exited /\ audio_pc = "close"
  /\ pipe_fd' = [pipe_fd EXCEPT !["thr_audio"] = "closed"]
  /\ audio_pc' = "returned"
  /\ a_ret' = 0
  /\ UNCHANGED << exitVars, relayCounters, audioFrame >>

thread_ReceiveAudio ==
  \/ audio_open
  \/ audio_check_buf
  \/ audio_sleep
  \/ audio_recv
  \/ audio_precheck
  \/ audio_write
  \/ audio_postcheck
  \/ audio_close

\* ------------------------------------------------------------------------
\* thread_bufferClean
\* ------------------------------------------------------------------------
cleanFrame == << sigVars, exitVars, iotc, main_pc, ccrVars, videoVars, audioVars,
                 ffmpeg_pc, pipe_fd, relayCounters >>

\* sleep(60); avClientCleanVideoBuf(0);
clean_video ==
  /\ ~exited /\ clean_pc = "clean_video"
  /\ clean_pc' = "clean_audio"
  /\ UNCHANGED cleanFrame

\* sleep(60); avClientCleanAudioBuf(0);
clean_audio ==
  /\ ~exited /\ clean_pc = "clean_audio"
  /\ clean_pc' = "clean_video"
  /\ UNCHANGED cleanFrame

thread_bufferClean ==
  \/ clean_video
  \/ clean_audio

\* ------------------------------------------------------------------------
\* the forked child, up to execlp("ffmpeg", ...)
\* (a process of its own: it keeps running when the parent has exited)
\* ------------------------------------------------------------------------
childFrame == << sigVars, exitVars, iotc, main_pc, ccrVars, videoVars, audioVars,
                 clean_pc, pipe_fd, relayCounters >>

\* child side of the two open(..., O_RDWR) calls (either failing makes the
\* child exit) and of: if (ffmpeg_pid == 0) { execlp("ffmpeg", ...);
\* perror("execlp"); exit(EXIT_FAILURE); }
child_exec ==
  /\ ffmpeg_pc = "forked"
  /\ \E audio_fd \in {-1, 3}, video_fd \in {-1, 4}, execOk \in BOOLEAN :
       ffmpeg_pc' = IF audio_fd = -1 \/ video_fd = -1 \/ ~execOk
                      THEN "exited" ELSE "running"
  /\ UNCHANGED childFrame

ffmpeg_child ==
  \/ child_exec

\* ------------------------------------------------------------------------
Next ==
  \/ sigpipe_handler
  \/ main
  \/ thread_ConnectCCR
  \/ thread_ReceiveVideo
  \/ thread_ReceiveAudio
  \/ thread_bufferClean
  \/ ffmpeg_child

Spec == Init /\ [][Next]_vars

\* The threads of the process and the child are scheduled by the kernel:
\* each one that can take a step eventually takes one.  Signals are not
\* forced to arrive, and nothing is assumed of what the transport answers.
Fairness ==
  /\ WF_vars(main)
  /\ WF_vars(thread_ConnectCCR)
  /\ WF_vars(thread_ReceiveVideo)
  /\ WF_vars(thread_ReceiveAudio)
  /\ WF_vars(thread_bufferClean)
  /\ WF_vars(ffmpeg_child)

FairSpec == Spec /\ Fairness

\* ------------------------------------------------------------------------
\* Properties
\* ------------------------------------------------------------------------
STOP == "avSendIOCtrl(IOTYPE_USER_IPCAM_STOP)"

\* how often thread_ConnectCCR has made the call
Occurrences(name) == Cardinality({i \in 1..Len(calls) : calls[i] = name})

\* the step of the teardown order a call of thread_ConnectCCR belongs to:
\* 1 stop-stream command, 2 sink close, 3 consumer termination,
\* 4 stream release, 5 session close (0: no step of that order)
TeardownStep(name) ==
  CASE name = STOP -> 1
    [] name \in {"close(video_pipe_fd)", "close(audio_pipe_fd)"} -> 2
    [] name = "kill(ffmpeg_pid)" -> 3
    [] name = "avClientStop" -> 4
    [] name = "IOTC_Session_Close" -> 5
    [] OTHER -> 0

IsTeardownCall(name) == TeardownStep(name) > 0
TeardownCalls == SelectSeq(calls, IsTeardownCall)

SinksClosedOnce ==
  /\ pipe_fd["ccr_video"] = "closed" /\ Occurrences("close(video_pipe_fd)") = 1
  /\ pipe_fd["ccr_audio"] = "closed" /\ Occurrences("close(audio_pipe_fd)") = 1
ConsumerKilledOnce == Occurrences("kill(ffmpeg_pid)") = 1
StreamReleasedOnce == stream = "stopped" /\ Occurrences("avClientStop") = 1
SessionClosedOnce == session = "closed" /\ Occurrences("IOTC_Session_Close") = 1

\* C1: when IOTC_Get_SessionID, IOTC_Connect_ByUID_Parallel or avClientStart2
\* has failed and thread_ConnectCCR has returned, the sinks it opened are
\* closed, the ffmpeg child has been killed and every transport handle it
\* acquired has been released, each exactly once.
C1_TeardownAfterEarlyFailure ==
  (ccr_pc = "returned" /\ (tmpSID < 0 \/ SID < 0 \/ avIndex < 0)) =>
     /\ SinksClosedOnce
     /\ ConsumerKilledOnce
     /\ (stream # "none" => StreamReleasedOnce)
     /\ (session # "none" => SessionClosedOnce)

\* C2: when the stop-stream command has failed and thread_ConnectCCR has
\* returned, the rest of teardown has run all the same: both sinks closed,
\* the ffmpeg child killed, the stream released and the session closed.
C2_StopFailureNotPropagated ==
  (ccr_pc = "returned" /\ Occurrences(STOP) = 1 /\ c_ret < 0) =>
     /\ SinksClosedOnce
     /\ ConsumerKilledOnce
     /\ StreamReleasedOnce
     /\ SessionClosedOnce

\* C3: when one of the four setup commands has failed (start_ipcam_stream
\* returned 0) and thread_ConnectCCR has returned, everything acquired before
\* the failure (both sinks, the ffmpeg child, the stream, the session) has
\* been released, and nothing has been released twice.
C3_ReleaseAfterSetupCommandFailure ==
  (ccr_pc = "returned" /\ ipcam_started = 0) =>
     /\ SinksClosedOnce
     /\ ConsumerKilledOnce
     /\ StreamReleasedOnce
     /\ SessionClosedOnce

\* C4: the teardown calls made so far are in the order stop-stream command,
\* sink close, consumer termination, stream release, session close, with no
\* step left out before a later one; the session is closed only after the
\* stream has been released.
C4_TeardownOrder ==
  /\ \A i \in 1..Len(TeardownCalls) :
       LET prev == IF i = 1 THEN 0 ELSE TeardownStep(TeardownCalls[i - 1])
       IN  TeardownStep(TeardownCalls[i]) \in {prev, prev + 1}
  /\ (session = "closed" => stream = "stopped")

\* C4 witness: teardown entered from a failed setup command has run to its end
C4_TeardownFromSetupFailureDone ==
  ipcam_started = 0 /\ session = "closed" /\ Len(TeardownCalls) = 6

\* C5: once thread_ConnectCCR is past its two joins, both relay threads have
\* returned (or were never created); the stop-stream command that opens
\* teardown is sent at most once and never while a relay thread runs.
AfterJoins == {"stop", "close_video", "close_audio", "kill", "av_exit", "av_stop",
               "session_close", "returned"}
RelayThreadRuns(pc) == pc \notin {"unborn", "returned"}
C5_TeardownAfterBothLoops ==
  /\ (ccr_pc \in AfterJoins =>
        ~RelayThreadRuns(video_pc) /\ ~RelayThreadRuns(audio_pc))
  /\ Occurrences(STOP) <= 1
  /\ (Occurrences(STOP) = 1 =>
        ~RelayThreadRuns(video_pc) /\ ~RelayThreadRuns(audio_pc))

\* C5 witness: both relay threads ran and returned, and teardown has begun
C5_TeardownBegunAfterLoops ==
  video_pc = "returned" /\ audio_pc = "returned" /\ Occurrences(STOP) = 1

\* C6: the first SIGINT sets graceful_shutdown and does not end the process;
\* the second SIGINT ends it with exit(1); after that exit thread_ConnectCCR
\* makes no further call (no stop-stream command, no sink close, no stream
\* or session release).
C6_SecondInterruptTerminates ==
  [][ /\ (sigints' = 1 => graceful_shutdown' = 1 /\ exitBy' # "sigint")
      /\ (sigints' = 2 => exited' /\ exitBy' = "sigint" /\ exitCode' = 1)
      /\ (exitBy = "sigint" => UNCHANGED << calls, pipe_fd, session, stream >>)
    ]_vars

\* C6 witness: the second SIGINT came before teardown started, and the
\* process ended with sinks, stream and session unreleased
C6_ForcedBeforeTeardown ==
  /\ sigints = 2 /\ exited
  /\ stream = "started" /\ session = "connected"
  /\ pipe_fd["ccr_video"] = "open" /\ Occurrences(STOP) = 0

\* C7: the process has ended through the handler's exit(1) only if
\* graceful_shutdown had been set by an earlier SIGINT.
C7_ForcedOnlyAfterGraceful ==
  exitBy = "sigint" => (graceful_shutdown = 1 /\ sigints >= 2)

\* C7 witness: the process ended through the handler's exit(1)
C7_ForcedTermination == exited /\ exitBy = "sigint"

\* C8: each relay loop makes at most one write() with graceful_shutdown set.
C8_AtMostOneWriteAfterCancel ==
  \A k \in Kinds : writesAfterCancel[k] <= 1

\* C8 witness: both loops wrote once after the flag was set, then returned
C8_OneWriteAfterCancelEach ==
  /\ writesAfterCancel["audio"] = 1 /\ writesAfterCancel["video"] = 1
  /\ audio_pc = "returned" /\ video_pc = "returned"

\* C9: a step of the audio loop in which avRecvAudioData gives
\* AV_ER_LOSED_THIS_FRAME leads back to the avCheckAudioBuf poll, writes
\* nothing and does not leave the loop.
C9_LostFrameSkipped ==
  [][ (audio_pc = "recv" /\ audio_pc' # "recv" /\ a_ret' = AV_ER_LOSED_THIS_FRAME)
        => (audio_pc' = "check_buf" /\ writes' = writes) ]_vars

\* C9 witness: the audio loop is back at its poll after a lost frame
C9_AfterLostFrame ==
  a_ret = AV_ER_LOSED_THIS_FRAME /\ audio_pc = "check_buf"

SinkOpened == pipe_fd["ccr_audio"] # "none" \/ pipe_fd["ccr_video"] # "none"
ConsumerForked == ffmpeg_pid = 1

C15_GracefulShutdownCompletes ==
  (sigints = 1) ~>
     \/ sigints = 2
     \/ (~RelayThreadRuns(video_pc) /\ ~RelayThreadRuns(audio_pc) /\ session = "closed")
     \/ exited

\* C11: a step in which a relay loop leaves on its own terminal condition
\* changes neither graceful_shutdown nor sigkill nor the position of the
\* other relay thread; and thread_ConnectCCR gets to the stop-stream command
\* of a run with relay threads only when both have returned.
C11_TerminalExitLeavesSibling ==
  [][ /\ (video_pc = "recv" /\ video_pc' = "close") =>
            UNCHANGED << graceful_shutdown, sigkill, audio_pc >>
      /\ (audio_pc \in {"check_buf", "recv"} /\ audio_pc' = "close") =>
            UNCHANGED << graceful_shutdown, sigkill, video_pc >>
      /\ (ccr_pc # "stop" /\ ccr_pc' = "stop" /\ ipcam_started' = 1) =>
            (video_pc' = "returned" /\ audio_pc' = "returned")
    ]_vars

\* C11 witness: the video loop has returned on a terminal result (the flag
\* is still 0) while the audio loop is about to write
C11_SiblingStillRelaying ==
  /\ video_pc = "returned" /\ graceful_shutdown = 0
  /\ audio_pc = "write" /\ ccr_pc \in {"join_video", "join_audio"}

\* C12: the exit status is -1 when the argument is missing or
\* IOTC_Initialize2 fails, 1 when the process ends through the second SIGINT,
\* and 0 on every other end of the process.
C12_ExitStatus ==
  exited =>
    /\ (exitBy \in {"main_args", "main_init"} => exitCode = -1)
    /\ (exitBy = "sigint" => exitCode = 1)
    /\ (exitBy \notin {"main_args", "main_init", "sigint"} => exitCode = 0)

\* C13: a step that handles SIGPIPE changes neither graceful_shutdown nor
\* sigkill, does not end the process and moves no relay thread.
C13_SigpipeLeavesShutdownState ==
  [][ sigpipe_logged' # sigpipe_logged =>
        UNCHANGED << graceful_shutdown, sigkill, exited, exitCode, exitBy,
                     video_pc, audio_pc >> ]_vars

\* C13 witness: SIGPIPE has been handled in a run with a pending first
\* SIGINT, and the process and its video loop go on
C13_SigpipeWithPendingInterrupt ==
  /\ sigpipe_logged = 1 /\ sigkill = 1 /\ graceful_shutdown = 1
  /\ ~exited /\ RelayThreadRuns(video_pc)

\* C14: with graceful_shutdown set, a successful receive of the video loop
\* leads out of the loop and not to the write, and the audio loop's test
\* after its receive leads out of the loop and not to the write.
C14_NoWriteWhenCancelledAtReceive ==
  [][ graceful_shutdown = 1 =>
        /\ (video_pc = "recv" /\ video_pc' # "recv" /\ v_ret' >= 0) => video_pc' = "close"
        /\ (audio_pc = "precheck" /\ audio_pc' # "precheck") => audio_pc' = "close"
    ]_vars

\* C16: a relay loop is at its write() only with a non-negative receive
\* result in ret (the count it passes to write).
C16_WriteOnlyAfterSuccessfulReceive ==
  /\ (video_pc = "write" => v_ret >= 0)
  /\ (audio_pc = "write" => a_ret >= 0)

SetupCommandNames == [i \in 1..Len(SetupCommands) |-> SetupCommands[i].cmd]
IsSetupCommand(name) == \E i \in 1..Len(SetupCommands) : SetupCommands[i].cmd = name
SetupIssued == SelectSeq(calls, IsSetupCommand)

\* C17: the setup commands sent so far are the first ones of the fixed order
\* night-vision, quality, start video, start audio; a further one is sent
\* only while none has failed; after a failure none is sent and no relay or
\* buffer-clean thread is created; a thread exists only when all four
\* succeeded.
C17_SetupCommandsSequential ==
  [][ /\ SetupIssued' = SubSeq(SetupCommandNames, 1, Len(SetupIssued'))
      /\ (Len(SetupIssued') > Len(SetupIssued) => ipcam_started = -1)
      /\ (ipcam_started' = 0 =>
            video_pc' = "unborn" /\ audio_pc' = "unborn" /\ clean_pc' = "unborn")
      /\ (video_pc' # "unborn" =>
            ipcam_started' = 1 /\ Len(SetupIssued') = Len(SetupCommands))
    ]_vars

\* C17 witness: the second setup command failed and the run went on to its
\* end without a third command or a thread
C17_SecondCommandFailed ==
  /\ ipcam_started = 0 /\ Len(SetupIssued) = 2
  /\ ccr_pc = "returned" /\ video_pc = "unborn"

BothSinksOpened == pipe_fd["ccr_audio"] # "none" /\ pipe_fd["ccr_video"] # "none"
SomeWrite == \E k \in Kinds : writes[k] > 0

C19_NoCleanAfterRelease ==
  [][ (clean_pc # "unborn" /\ clean_pc' # clean_pc) =>
        (stream # "stopped" /\ session # "closed" /\ iotc # "deinit") ]_vars

SetupCommandPositions == {SetupCommands[i].pc : i \in 1..Len(SetupCommands)}

\* C20: thread_ConnectCCR leaves its setup early only on a failed call,
\* whatever graceful_shutdown is; a relay loop leaves its loop only at its own
\* tests: a terminal receive result, or a graceful_shutdown test next to the
\* write.
C20_FlagReadOnlyInRelayLoops ==
  [][ /\ (ccr_pc = "get_session" /\ ccr_pc' = "returned") => tmpSID' < 0
      /\ (ccr_pc = "connect" /\ ccr_pc' = "returned") => SID' < 0
      /\ (ccr_pc = "av_start" /\ ccr_pc' = "returned") => avIndex' < 0
      /\ (ccr_pc \in SetupCommandPositions /\ ccr_pc' = "stop") => ipcam_started' = 0
      /\ (video_pc # "close" /\ video_pc' = "close") =>
            \/ video_pc = "recv" /\ v_ret' \in TerminalResults
            \/ video_pc = "check" /\ graceful_shutdown = 1
      /\ (audio_pc # "close" /\ audio_pc' = "close") =>
            \/ audio_pc = "check_buf" /\ a_ret' < 0
            \/ audio_pc = "recv" /\ a_ret' \in TerminalResults
            \/ audio_pc \in {"precheck", "postcheck"} /\ graceful_shutdown = 1
    ]_vars

\* C20 witness: the first SIGINT came during setup, and setup has gone
\* through to the point where the threads are created
C20_InterruptedSetupCompleted ==
  /\ graceful_shutdown = 1 /\ sigints = 1 /\ ~exited
  /\ ccr_pc = "create_video" /\ ipcam_started = 1

====
